---- MODULE Spec2Model ----
(***************************************************************************)
(* Grid layout and wire router of the schematic view                       *)
(* (src/components/SchematicView.tsx).                                     *)
(*                                                                         *)
(* Pixel coordinates are integers here.  The only non-integer number the   *)
(* router computes is the x offset of a top/bottom pin,                    *)
(* pos.w / (n + 1) * (idx + 1); it is kept as an exact fraction and only   *)
(* its rounding to a grid cell (toGrid) is taken, as the code does.        *)
(***************************************************************************)
EXTENDS Integers, Sequences, FiniteSets, TLC

\* ------------------------------------------------------------------------
\* Constants of the source
\* ------------------------------------------------------------------------
GRID_SIZE == 20
HEADER_HEIGHT == 40
PIN_SPACING == 20
MAX_ITER == 5000

\* ------------------------------------------------------------------------
\* Arithmetic helpers
\* ------------------------------------------------------------------------
Abs(n) == IF n < 0 THEN -n ELSE n
Min2(a, b) == IF a < b THEN a ELSE b
Max2(a, b) == IF a > b THEN a ELSE b

\* Math.round(num / den) for den > 0: the nearest integer, a tie going up
\* (towards +infinity), as JavaScript rounds.
RoundDiv(num, den) == (2 * num + den) \div (2 * den)

\* Math.ceil(num / den) for den > 0.
CeilDiv(num, den) == -((-num) \div den)

\* toGrid of the fraction num / den of a pixel value.
toGridFrac(num, den) == RoundDiv(num, den * GRID_SIZE)
toGrid(val) == toGridFrac(val, 1)
toPx(val) == val * GRID_SIZE

Pt(px, py) == [x |-> px, y |-> py]

getManhattanDistance(a, b) == Abs(a.x - b.x) + Abs(a.y - b.y)

\* ------------------------------------------------------------------------
\* PriorityQueue: push followed by a (stable) sort on priority puts the new
\* element behind every element whose priority is not larger.
\* ------------------------------------------------------------------------
\* The queue is sorted, so that position is the number of such elements.
InsertPos(elements, priority) ==
    Cardinality({ i \in DOMAIN elements : elements[i].priority <= priority })

enqueue(elements, item, priority) ==
    LET k == InsertPos(elements, priority)
        e == [item |-> item, priority |-> priority]
    IN  SubSeq(elements, 1, k) \o <<e>> \o SubSeq(elements, k + 1, Len(elements))

\* ------------------------------------------------------------------------
\* findPathAStar
\* ------------------------------------------------------------------------
\* dir: null of the queue entry of the start cell
NoDir == Pt(0, 0)
dirs == << Pt(0, 1), Pt(0, -1), Pt(1, 0), Pt(-1, 0) >>

InBounds(p, gridBounds) ==
    /\ p.x >= gridBounds.minX /\ p.x <= gridBounds.maxX
    /\ p.y >= gridBounds.minY /\ p.y <= gridBounds.maxY

\* The removal of collinear points from the raw cell path (lines 79-89).
RECURSIVE OptimizeFrom(_, _)
OptimizeFrom(path, i) ==
    IF i > Len(path) - 1 THEN << >>
    ELSE LET prev == path[i - 1]
             curr == path[i]
             next == path[i + 1]
             keep == ~( (prev.x = curr.x /\ curr.x = next.x)
                        \/ (prev.y = curr.y /\ curr.y = next.y) )
         IN  (IF keep THEN <<curr>> ELSE << >>) \o OptimizeFrom(path, i + 1)

\* The raw cell path returned as it is, no point removed.
OptimizeKeepAll(path) == path

\* Mutant: the final push of the last cell (line 88) is left out.
OptimizeNoLast(path) == <<path[1]>> \o OptimizeFrom(path, 2)

Optimize(path) == <<path[1]>> \o OptimizeFrom(path, 2) \o <<path[Len(path)]>>

\* The fallback as one straight segment from start to end.
FallbackDirect(start, end) == << start, end >>

Fallback(start, end) == << start, Pt(end.x, start.y), end >>

\* The turn penalty of one step (lines 109-115).
StepCost(dir, d) == 10 + (IF dir # NoDir /\ (dir.x # d.x \/ dir.y # d.y) THEN 50 ELSE 0)

\* The neighbour test without the blocked-cell test: every cell inside the
\* bounds is entered.
ExploreThroughBlocked(s, current, costSoFar, k, end, obstacles, gridBounds) ==
    LET d == dirs[k]
        next == Pt(current.pos.x + d.x, current.pos.y + d.y)
        newCost == costSoFar + StepCost(current.dir, d)
    IN  IF ~InBounds(next, gridBounds) THEN s
        ELSE IF next \notin DOMAIN s.visited \/ newCost < s.visited[next]
        THEN [s EXCEPT
                !.visited = (next :> newCost) @@ s.visited,
                !.queue = enqueue(s.queue,
                                  [pos |-> next, path |-> Append(current.path, next), dir |-> d],
                                  newCost + getManhattanDistance(next, end) * 10)]
        ELSE s

\* The neighbour test without the exemption of the end cell: a blocked cell
\* is never entered.
ExploreNoExempt(s, current, costSoFar, k, end, obstacles, gridBounds) ==
    LET d == dirs[k]
        next == Pt(current.pos.x + d.x, current.pos.y + d.y)
        newCost == costSoFar + StepCost(current.dir, d)
    IN  IF ~InBounds(next, gridBounds) THEN s
        ELSE IF next \in obstacles THEN s
        ELSE IF next \notin DOMAIN s.visited \/ newCost < s.visited[next]
        THEN [s EXCEPT
                !.visited = (next :> newCost) @@ s.visited,
                !.queue = enqueue(s.queue,
                                  [pos |-> next, path |-> Append(current.path, next), dir |-> d],
                                  newCost + getManhattanDistance(next, end) * 10)]
        ELSE s

\* One pass of the body of `for (const d of dirs)` (lines 95-122) for
\* direction number k, on the loop state s.
Explore(s, current, costSoFar, k, end, obstacles, gridBounds) ==
    LET d == dirs[k]
        next == Pt(current.pos.x + d.x, current.pos.y + d.y)
        isEnd == next = end
        newCost == costSoFar + StepCost(current.dir, d)
    IN  IF ~InBounds(next, gridBounds) THEN s
        ELSE IF next \in obstacles /\ ~isEnd THEN s
        ELSE IF next \notin DOMAIN s.visited \/ newCost < s.visited[next]
        THEN [s EXCEPT
                !.visited = (next :> newCost) @@ s.visited,
                !.queue = enqueue(s.queue,
                                  [pos |-> next, path |-> Append(current.path, next), dir |-> d],
                                  newCost + getManhattanDistance(next, end) * 10)]
        ELSE s

\* The loop without the iteration cap: it ends only on an empty queue or at
\* the end cell.
LoopStepNoCap(s, start, end, obstacles, gridBounds) ==
    IF s.done THEN s
    ELSE IF s.queue = << >>
    THEN [s EXCEPT !.done = TRUE, !.found = FALSE, !.path = Fallback(start, end)]
    ELSE LET current == Head(s.queue).item
             s0 == [s EXCEPT !.queue = Tail(s.queue), !.iterations = s.iterations + 1]
         IN  IF current.pos = end
             THEN [s0 EXCEPT !.done = TRUE, !.found = TRUE,
                             !.path = Optimize(current.path), !.raw = current.path]
             ELSE LET costSoFar == s0.visited[current.pos]
                      s1 == Explore(s0, current, costSoFar, 1, end, obstacles, gridBounds)
                      s2 == Explore(s1, current, costSoFar, 2, end, obstacles, gridBounds)
                      s3 == Explore(s2, current, costSoFar, 3, end, obstacles, gridBounds)
                  IN  Explore(s3, current, costSoFar, 4, end, obstacles, gridBounds)

\* One iteration of the while loop (lines 69-123), or the exit from it.
\* s.done is set when the function has returned s.path.
LoopStep(s, start, end, obstacles, gridBounds) ==
    IF s.done THEN s
    ELSE IF s.queue = << >> \/ s.iterations >= MAX_ITER
    THEN [s EXCEPT !.done = TRUE, !.found = FALSE, !.path = Fallback(start, end)]
    ELSE LET current == Head(s.queue).item
             s0 == [s EXCEPT !.queue = Tail(s.queue), !.iterations = s.iterations + 1]
         IN  IF current.pos = end
             THEN [s0 EXCEPT !.done = TRUE, !.found = TRUE,
                             !.path = Optimize(current.path), !.raw = current.path]
             ELSE LET costSoFar == s0.visited[current.pos]
                      s1 == Explore(s0, current, costSoFar, 1, end, obstacles, gridBounds)
                      s2 == Explore(s1, current, costSoFar, 2, end, obstacles, gridBounds)
                      s3 == Explore(s2, current, costSoFar, 3, end, obstacles, gridBounds)
                  IN  Explore(s3, current, costSoFar, 4, end, obstacles, gridBounds)

\* 2^k iterations of the loop, stopping when the function has returned.
RECURSIVE RunLoop(_, _, _, _, _, _)
RunLoop(s, k, start, end, obstacles, gridBounds) ==
    IF s.done THEN s
    ELSE IF k = 0 THEN LoopStep(s, start, end, obstacles, gridBounds)
    ELSE LET half == RunLoop(s, k - 1, start, end, obstacles, gridBounds)
         IN  RunLoop(half, k - 1, start, end, obstacles, gridBounds)

AStarInit(start) ==
    [ queue |-> << [item |-> [pos |-> start, path |-> <<start>>, dir |-> NoDir],
                    priority |-> 0] >>,
      visited |-> (start :> 0),
      iterations |-> 0,
      done |-> FALSE, found |-> FALSE, path |-> << >>, raw |-> << >> ]

\* The whole call: the final loop state (path: the value returned, found:
\* whether it was returned from inside the loop, raw: the cell path then).
AStarRun(start, end, obstacles, gridBounds) ==
    \* 2^13 > MAX_ITER + 1 loop steps: enough for every call to return
    RunLoop(AStarInit(start), 13, start, end, obstacles, gridBounds)

findPathAStar(start, end, obstacles, gridBounds) ==
    AStarRun(start, end, obstacles, gridBounds).path

\* ------------------------------------------------------------------------
\* Data model (src/types.ts).  A string that the code inspects character by
\* character (a net name) is a sequence of characters; a pin identifier is a
\* number or a string, told apart by isNum.
\* ------------------------------------------------------------------------
Num(n) == [isNum |-> TRUE, num |-> n, str |-> ""]
Str(s) == [isNum |-> FALSE, num |-> 0, str |-> s]

\* String(v) of a pin identifier: the decimal digits of a number, a string
\* as it is.
DecimalDigits ==
    << "1", "2", "3", "4", "5", "6", "7", "8", "9", "10", "11", "12", "13", "14", "15", "16",
       "17", "18", "19", "20", "21", "22", "23", "24" >>
String(v) == IF v.isNum
             THEN (IF v.num = 0 THEN "0" ELSE DecimalDigits[v.num])
             ELSE v.str

\* name.includes(sub)
includes(name, sub) ==
    \E i \in 1..(Len(name) - Len(sub) + 1) : SubSeq(name, i, i + Len(sub) - 1) = sub

\* arr.filter(pred) for the four side groups; a pin with no side has side "none".
RECURSIVE FilterSide(_, _)
FilterSide(pins, sides) ==
    IF pins = << >> THEN << >>
    ELSE (IF Head(pins).side \in sides THEN <<Head(pins)>> ELSE << >>)
         \o FilterSide(Tail(pins), sides)

leftPins(comp) == FilterSide(comp.pins, {"left", "none"})
rightPins(comp) == FilterSide(comp.pins, {"right"})
topPins(comp) == FilterSide(comp.pins, {"top"})
bottomPins(comp) == FilterSide(comp.pins, {"bottom"})

\* ------------------------------------------------------------------------
\* Position initialisation effect (lines 141-175)
\* ------------------------------------------------------------------------
startX == 60
startY == 60
colWidth == 320
rowHeight == 350

NoPositions == [id \in {} |-> 0]

\* Mutant: the height follows the left pins only.
CompHeightLeftOnly(comp) ==
    LET maxV == Len(leftPins(comp))
        contentHeight == HEADER_HEIGHT + (maxV * PIN_SPACING * 2)
    IN  CeilDiv(Max2(contentHeight, 100) + 40, GRID_SIZE) * GRID_SIZE

CompHeight(comp) ==
    LET maxV == Max2(Len(leftPins(comp)), Len(rightPins(comp)))
        contentHeight == HEADER_HEIGHT + (maxV * PIN_SPACING * 2)
    IN  CeilDiv(Max2(contentHeight, 100) + 40, GRID_SIZE) * GRID_SIZE

CompWidth == CeilDiv(220, GRID_SIZE) * GRID_SIZE

\* The placement loop with four columns to a row.
RECURSIVE PlaceFromFourColumns(_, _, _, _, _)
PlaceFromFourColumns(components, k, col, row, newPos) ==
    IF k > Len(components) THEN newPos
    ELSE LET comp == components[k]
             entry == [ x |-> startX + (col * colWidth),
                        y |-> startY + (row * rowHeight),
                        w |-> CompWidth,
                        h |-> CompHeight(comp) ]
             placed == (comp.id :> entry) @@ newPos
         IN  IF col + 1 > 3
             THEN PlaceFromFourColumns(components, k + 1, 0, row + 1, placed)
             ELSE PlaceFromFourColumns(components, k + 1, col + 1, row, placed)

\* data.components.forEach(...) from component number k on, with the loop's
\* col and row.
RECURSIVE PlaceFrom(_, _, _, _, _)
PlaceFrom(components, k, col, row, newPos) ==
    IF k > Len(components) THEN newPos
    ELSE LET comp == components[k]
             entry == [ x |-> startX + (col * colWidth),
                        y |-> startY + (row * rowHeight),
                        w |-> CompWidth,
                        h |-> CompHeight(comp) ]
             placed == (comp.id :> entry) @@ newPos
         IN  IF col + 1 > 2
             THEN PlaceFrom(components, k + 1, 0, row + 1, placed)
             ELSE PlaceFrom(components, k + 1, col + 1, row, placed)

InitialPositions(components) == PlaceFrom(components, 1, 0, 0, NoPositions)

\* ------------------------------------------------------------------------
\* Routing calculation (lines 178-291)
\* ------------------------------------------------------------------------
padding == 2
margin == 20

SignalColor == "#059669"
PowerColor == "#dc2626"
GroundColor == "#1e293b"

\* The cells one placement entry blocks (lines 183-193).
\* The blocked rectangle of a placement without the clearance around it.
BlockedOfNoPad(p) ==
    LET gx == toGrid(p.x)
        gy == toGrid(p.y)
        gw == toGrid(p.w)
        gh == toGrid(p.h)
    IN  { Pt(cx, cy) : cx \in gx..(gx + gw), cy \in gy..(gy + gh) }

BlockedOf(p) ==
    LET gx == toGrid(p.x)
        gy == toGrid(p.y)
        gw == toGrid(p.w)
        gh == toGrid(p.h)
    IN  { Pt(cx, cy) : cx \in (gx - padding)..(gx + gw + padding),
                       cy \in (gy - padding)..(gy + gh + padding) }

BuildBlocked(pos) == UNION { BlockedOf(pos[id]) : id \in DOMAIN pos }

\* data.components.find(c => c.id === id): the index of the first such
\* component, 0 when there is none.
RECURSIVE FindComp(_, _, _)
FindComp(components, id, k) ==
    IF k > Len(components) THEN 0
    ELSE IF components[k].id = id THEN k
    ELSE FindComp(components, id, k + 1)

\* findIdx(arr) (line 213), 1-based; 0 stands for -1.
RECURSIVE findIdxFrom(_, _, _)
findIdxFrom(arr, pin, k) ==
    IF k > Len(arr) THEN 0
    ELSE IF String(arr[k].pinNumber) = String(pin) \/ arr[k].name = String(pin) THEN k
    ELSE findIdxFrom(arr, pin, k + 1)

findIdx(arr, pin) == findIdxFrom(arr, pin, 1)

\* The pin location with the right group searched before the left group.
LocatePinRightFirst(comp, pos, pin) ==
    LET l == findIdx(leftPins(comp), pin)
        r == findIdx(rightPins(comp), pin)
        t == findIdx(topPins(comp), pin)
        b == findIdx(bottomPins(comp), pin)
        nt == Len(topPins(comp))
        nb == Len(bottomPins(comp))
    IN  IF r # 0 THEN
            [ xNum |-> pos.x + pos.w, xDen |-> 1,
              py |-> pos.y + HEADER_HEIGHT + PIN_SPACING + ((r - 1) * PIN_SPACING * 2),
              side |-> "right", matched |-> TRUE ]
        ELSE IF l # 0 THEN
            [ xNum |-> pos.x, xDen |-> 1,
              py |-> pos.y + HEADER_HEIGHT + PIN_SPACING + ((l - 1) * PIN_SPACING * 2),
              side |-> "left", matched |-> TRUE ]
        ELSE IF t # 0 THEN
            [ xNum |-> pos.x * (nt + 1) + pos.w * t, xDen |-> nt + 1,
              py |-> pos.y,
              side |-> "top", matched |-> TRUE ]
        ELSE IF b # 0 THEN
            [ xNum |-> pos.x * (nb + 1) + pos.w * b, xDen |-> nb + 1,
              py |-> pos.y + pos.h,
              side |-> "bottom", matched |-> TRUE ]
        ELSE
            [ xNum |-> 0, xDen |-> 1, py |-> 0, side |-> "left", matched |-> FALSE ]

\* The pin location of lines 215-236 in pixels: px is the fraction
\* xNum / xDen, py an integer.  matched tells whether some group held the pin.
LocatePin(comp, pos, pin) ==
    LET l == findIdx(leftPins(comp), pin)
        r == findIdx(rightPins(comp), pin)
        t == findIdx(topPins(comp), pin)
        b == findIdx(bottomPins(comp), pin)
        nt == Len(topPins(comp))
        nb == Len(bottomPins(comp))
    IN  IF l # 0 THEN
            [ xNum |-> pos.x, xDen |-> 1,
              py |-> pos.y + HEADER_HEIGHT + PIN_SPACING + ((l - 1) * PIN_SPACING * 2),
              side |-> "left", matched |-> TRUE ]
        ELSE IF r # 0 THEN
            [ xNum |-> pos.x + pos.w, xDen |-> 1,
              py |-> pos.y + HEADER_HEIGHT + PIN_SPACING + ((r - 1) * PIN_SPACING * 2),
              side |-> "right", matched |-> TRUE ]
        ELSE IF t # 0 THEN
            [ xNum |-> pos.x * (nt + 1) + pos.w * t, xDen |-> nt + 1,
              py |-> pos.y,
              side |-> "top", matched |-> TRUE ]
        ELSE IF b # 0 THEN
            [ xNum |-> pos.x * (nb + 1) + pos.w * b, xDen |-> nb + 1,
              py |-> pos.y + pos.h,
              side |-> "bottom", matched |-> TRUE ]
        ELSE
            [ xNum |-> 0, xDen |-> 1, py |-> 0, side |-> "left", matched |-> FALSE ]

\* The entry pushed to pinPoints for a located pin (line 238).
PinPoint(loc) == [ p |-> Pt(toGridFrac(loc.xNum, loc.xDen), toGrid(loc.py)), side |-> loc.side ]

\* The connection loop with an unmatched pin treated like a missing
\* component: the connection is left out.
RECURSIVE PinPointsDropUnmatched(_, _, _, _)
PinPointsDropUnmatched(components, pos, connections, k) ==
    IF k > Len(connections) THEN << >>
    ELSE LET conn == connections[k]
             c == FindComp(components, conn.componentId, 1)
             rest == PinPointsDropUnmatched(components, pos, connections, k + 1)
         IN  IF c = 0 \/ conn.componentId \notin DOMAIN pos THEN rest
             ELSE IF ~LocatePin(components[c], pos[conn.componentId], conn.pin).matched THEN rest
             ELSE <<PinPoint(LocatePin(components[c], pos[conn.componentId], conn.pin))>> \o rest

\* The connection loop ended by the first connection without a listed and
\* placed component, instead of passing over it.
RECURSIVE PinPointsUntilMissing(_, _, _, _)
PinPointsUntilMissing(components, pos, connections, k) ==
    IF k > Len(connections) THEN << >>
    ELSE LET conn == connections[k]
             c == FindComp(components, conn.componentId, 1)
         IN  IF c = 0 \/ conn.componentId \notin DOMAIN pos THEN << >>
             ELSE <<PinPoint(LocatePin(components[c], pos[conn.componentId], conn.pin))>>
                  \o PinPointsUntilMissing(components, pos, connections, k + 1)

\* net.connections.forEach(...) (lines 203-239) from connection number k on.
RECURSIVE PinPointsFrom(_, _, _, _)
PinPointsFrom(components, pos, connections, k) ==
    IF k > Len(connections) THEN << >>
    ELSE LET conn == connections[k]
             c == FindComp(components, conn.componentId, 1)
             rest == PinPointsFrom(components, pos, connections, k + 1)
         IN  IF c = 0 \/ conn.componentId \notin DOMAIN pos THEN rest
             ELSE <<PinPoint(LocatePin(components[c], pos[conn.componentId], conn.pin))>> \o rest

pinPointsOf(components, pos, net) == PinPointsFrom(components, pos, net.connections, 1)

\* The access point two cells outward, on the rim of the clearance.
getAccessPointTwoOut(pt, side) ==
    CASE side = "left" -> Pt(pt.x - 2, pt.y)
      [] side = "right" -> Pt(pt.x + 2, pt.y)
      [] side = "top" -> Pt(pt.x, pt.y - 2)
      [] side = "bottom" -> Pt(pt.x, pt.y + 2)
      [] OTHER -> pt

getAccessPoint(pt, side) ==
    CASE side = "left" -> Pt(pt.x - 1, pt.y)
      [] side = "right" -> Pt(pt.x + 1, pt.y)
      [] side = "top" -> Pt(pt.x, pt.y - 1)
      [] side = "bottom" -> Pt(pt.x, pt.y + 1)
      [] OTHER -> pt

SearchBounds(startAccess, endAccess) ==
    [ minX |-> Min2(startAccess.x, endAccess.x) - margin,
      maxX |-> Max2(startAccess.x, endAccess.x) + margin,
      minY |-> Min2(startAccess.y, endAccess.y) - margin,
      maxY |-> Max2(startAccess.y, endAccess.y) + margin ]

\* Color coding (lines 277-279): the second test overrides the first.
NetColor(net) ==
    LET c1 == IF net.type = "power" \/ includes(net.name, <<"V", "C", "C">>)
                 \/ includes(net.name, <<"3", "V", "3">>) \/ includes(net.name, <<"5", "V">>)
              THEN PowerColor ELSE SignalColor
    IN  IF net.type = "ground" \/ includes(net.name, <<"G", "N", "D">>)
        THEN GroundColor ELSE c1

MapToPx(path) == [ k \in DOMAIN path |-> Pt(toPx(path[k].x), toPx(path[k].y)) ]

\* The route without the end pin re-attached: it stops at the end access
\* point.
RouteOfNoEndPin(net, pinPoints, i, blocked) ==
    LET startNode == pinPoints[i + 1]
        endNode == pinPoints[i + 2]
        startAccess == getAccessPoint(startNode.p, startNode.side)
        endAccess == getAccessPoint(endNode.p, endNode.side)
        bounds == SearchBounds(startAccess, endAccess)
        path == findPathAStar(startAccess, endAccess, blocked, bounds)
        finalPath == <<startNode.p>> \o path
    IN  [ path |-> MapToPx(finalPath),
          color |-> NetColor(net),
          id |-> <<net.id, i>>,
          netName |-> net.name ]

\* Mutant: every segment starts at the first pin of the net (a star).
RouteOfStar(net, pinPoints, i, blocked) ==
    LET startNode == pinPoints[1]
        endNode == pinPoints[i + 2]
        startAccess == getAccessPoint(startNode.p, startNode.side)
        endAccess == getAccessPoint(endNode.p, endNode.side)
        bounds == SearchBounds(startAccess, endAccess)
        path == findPathAStar(startAccess, endAccess, blocked, bounds)
        finalPath == <<startNode.p>> \o path \o <<endNode.p>>
    IN  [ path |-> MapToPx(finalPath),
          color |-> NetColor(net),
          id |-> <<net.id, i>>,
          netName |-> net.name ]

\* The route of segment i (0-based) of a net (lines 245-286).
RouteOf(net, pinPoints, i, blocked) ==
    LET startNode == pinPoints[i + 1]
        endNode == pinPoints[i + 2]
        startAccess == getAccessPoint(startNode.p, startNode.side)
        endAccess == getAccessPoint(endNode.p, endNode.side)
        bounds == SearchBounds(startAccess, endAccess)
        path == findPathAStar(startAccess, endAccess, blocked, bounds)
        finalPath == <<startNode.p>> \o path \o <<endNode.p>>
    IN  [ path |-> MapToPx(finalPath),
          color |-> NetColor(net),
          id |-> <<net.id, i>>,
          netName |-> net.name ]

\* The routes of one net (lines 241-287).
NetRoutes(components, pos, net, blocked) ==
    LET pinPoints == pinPointsOf(components, pos, net)
    IN  IF Len(pinPoints) < 2 THEN << >>
        ELSE [ k \in 1..(Len(pinPoints) - 1) |-> RouteOf(net, pinPoints, k - 1, blocked) ]

\* data.nets.forEach(...) from net number n on.
RECURSIVE RoutesFrom(_, _, _, _, _)
RoutesFrom(components, nets, pos, blocked, n) ==
    IF n > Len(nets) THEN << >>
    ELSE NetRoutes(components, pos, nets[n], blocked)
         \o RoutesFrom(components, nets, pos, blocked, n + 1)

\* The value of the routes memo for the given data and positions.
ComputeRoutes(d, pos) == RoutesFrom(d.components, d.nets, pos, BuildBlocked(pos), 1)

\* ------------------------------------------------------------------------
\* Input data of the checked runs
\* ------------------------------------------------------------------------
PinNames ==
    << "P1", "P2", "P3", "P4", "P5", "P6", "P7", "P8", "P9", "P10", "P11", "P12", "P13", "P14",
       "P15", "P16", "P17", "P18", "P19", "P20", "P21", "P22", "P23", "P24" >>

\* A component whose k-th pin has number k, name Pk and the k-th of `sides`.
Comp(id, sides) ==
    [ id |-> id,
      pins |-> [ k \in DOMAIN sides |->
                   [ pinNumber |-> Num(k), name |-> PinNames[k], side |-> sides[k] ] ] ]

Conn(id, pin) == [ componentId |-> id, pin |-> pin ]
Net(id, name, type, connections) ==
    [ id |-> id, name |-> name, type |-> type, connections |-> connections ]

NameSIG == << "S", "I", "G" >>
NameDATA == << "D", "A", "T", "A" >>
NameVCC == << "V", "C", "C" >>
NameGND_MAIN == << "G", "N", "D", "_", "M", "A", "I", "N" >>
Name3V3 == << "+", "3", "V", "3" >>
Name5V == << "5", "V", "_", "U", "S", "B" >>
NameVCC_GND == << "V", "C", "C", "_", "G", "N", "D" >>
NetNames == { NameSIG, NameVCC, NameGND_MAIN, Name3V3, Name5V, NameVCC_GND }
NetTypes == { "none", "signal", "power", "ground" }

\* Scenario A: a right pin facing a left pin, a third component, one net.
DataScenarioA ==
    [ components |-> << Comp("U1", <<"right">>), Comp("U2", <<"left">>), Comp("U3", <<"left">>) >>,
      nets |-> << Net("N1", NameSIG, "none", << Conn("U1", Num(1)), Conn("U2", Num(1)) >>) >> ]

\* Four components (the fourth starts the second row) with pins on every
\* side; a 3-connection chain, nets of 0 and 1 connections, nets that share
\* no component.
DataBoard ==
    [ components |->
        << Comp("U1", <<"left", "none", "right", "top", "bottom">>),
           Comp("U2", <<"right", "top", "top">>),
           Comp("U3", <<"left", "bottom">>),
           Comp("U4", <<"left", "right", "top">>) >>,
      nets |->
        << Net("N1", NameDATA, "signal",
               << Conn("U1", Num(3)), Conn("U2", Str("1")), Conn("U3", Str("P1")) >>),
           Net("N2", NameGND_MAIN, "none", << Conn("U3", Num(2)), Conn("U4", Num(1)) >>),
           Net("N3", NameVCC, "signal", << Conn("U2", Num(2)), Conn("U4", Num(3)) >>),
           Net("N4", NameSIG, "none", << Conn("U1", Num(4)), Conn("U9", Num(1)) >>),
           Net("N5", NameSIG, "power", << >>),
           Net("N6", NameVCC_GND, "power", << Conn("U1", Num(5)), Conn("U2", Num(3)) >>),
           Net("N7", Name5V, "none", << Conn("U1", Num(2)), Conn("U1", Num(1)) >>),
           Net("N8", NameDATA, "none",
               << Conn("U1", Num(1)), Conn("U9", Num(1)), Conn("U3", Num(1)) >>) >> ]

\* Two components and nets whose pin identifiers match no pin: the first,
\* the second or both connections of a net, and a net of one connection.
DataLenient ==
    [ components |-> << Comp("U1", <<"left", "right">>), Comp("U2", <<"left">>) >>,
      nets |->
        << Net("L1", NameSIG, "none", << Conn("U1", Str("X9")), Conn("U2", Num(1)) >>),
           Net("L2", NameSIG, "none", << Conn("U1", Num(2)), Conn("U2", Str("P7")) >>),
           Net("L3", NameSIG, "none", << Conn("U1", Num(7)), Conn("U2", Str("X9")) >>),
           Net("L4", NameSIG, "none", << Conn("U2", Num(3)) >>) >> ]

\* Two components joined by one net for every declared class and name.
ColorPairs == { <<t, n>> : t \in NetTypes, n \in NetNames }
RECURSIVE ColorNets(_)
ColorNets(pairs) ==
    IF pairs = {} THEN << >>
    ELSE LET tn == CHOOSE q \in pairs : TRUE
         IN  << Net(<<"C", tn[1], tn[2]>>, tn[2], tn[1],
                    << Conn("U1", Num(1)), Conn("U2", Num(1)) >>) >>
             \o ColorNets(pairs \ {tn})

DataColors ==
    [ components |-> << Comp("U1", <<"right">>), Comp("U2", <<"left">>) >>,
      nets |-> ColorNets(ColorPairs) ]

DataSets == { DataScenarioA, DataBoard, DataColors }

\* A component whose pins share identifiers across the side groups: the
\* number of one pin is the name of another, and two pins have one name.
\* Every net joins one identifier of U4 to the pin of U1.
PinRich ==
    [ id |-> "U4",
      pins |-> << [ pinNumber |-> Num(1), name |-> "A", side |-> "top" ],
                  [ pinNumber |-> Num(2), name |-> "B", side |-> "right" ],
                  [ pinNumber |-> Num(3), name |-> "2", side |-> "none" ],
                  [ pinNumber |-> Num(4), name |-> "1", side |-> "bottom" ],
                  [ pinNumber |-> Num(5), name |-> "4", side |-> "left" ],
                  [ pinNumber |-> Num(6), name |-> "A", side |-> "right" ],
                  [ pinNumber |-> Str("B"), name |-> "C", side |-> "top" ],
                  [ pinNumber |-> Num(8), name |-> "D", side |-> "bottom" ] >> ]

PinIds == << Num(1), Num(2), Num(4), Str("A"), Str("B"), Str("C"), Num(3), Str("1"), Num(8), Str("D") >>

DataPins ==
    [ components |-> << Comp("U1", <<"left">>), Comp("U2", <<"left">>), Comp("U3", <<"left">>),
                        PinRich >>,
      nets |-> [ k \in DOMAIN PinIds |->
                   Net(<<"P", k>>, NameSIG, "none", << Conn("U4", PinIds[k]), Conn("U1", Num(1)) >>) ] ]

\* Data passed to a mounted view one after the other: no component, the
\* three components of scenario A, a fourth component added with a net to
\* it, and the third component removed while a net still names it.
DataEmpty == [ components |-> << >>, nets |-> << >> ]

DataGrown ==
    [ components |-> << Comp("U1", <<"right">>), Comp("U2", <<"left">>), Comp("U3", <<"left">>),
                        Comp("U4", <<"left", "right">>) >>,
      nets |-> << Net("N1", NameSIG, "none", << Conn("U1", Num(1)), Conn("U2", Num(1)) >>),
                  Net("N2", NameDATA, "none",
                      << Conn("U3", Num(1)), Conn("U4", Num(1)), Conn("U2", Num(1)) >>),
                  Net("N4", NameSIG, "none", << Conn("U4", Num(2)), Conn("U1", Num(1)) >>) >> ]

DataShrunk ==
    [ components |-> << Comp("U1", <<"right">>), Comp("U2", <<"left">>) >>,
      nets |-> << Net("N1", NameSIG, "none", << Conn("U1", Num(1)), Conn("U2", Num(1)) >>),
                  Net("N3", NameDATA, "none", << Conn("U2", Num(1)), Conn("U3", Num(1)) >>) >> ]

UpdateSets == { DataEmpty, DataScenarioA, DataGrown, DataShrunk }

\* The components dragged between the data changes.
DraggedInData == { "U2", "U3" }

\* Mouse positions of the checked runs.
DownPts == { Pt(20, 0) }
MovePts == { Pt(0, 0), Pt(20, 0), Pt(-300, 0), Pt(20, 45) }

\* Bounds of the checked runs.
MaxMoves == 2
MaxZoom == 1

\* Placement inputs: n components, each with nl left pins (every second one
\* without a declared side), nr right pins and nt top and nt bottom pins.
MaxComps == 4
MaxSidePins == 7
CompIds == << "U1", "U2", "U3", "U4", "U5", "U6" >>

SideList(nl, nr, nt) ==
    [ k \in 1..(nl + nr + 2 * nt) |->
        IF k <= nl THEN (IF k % 2 = 0 THEN "none" ELSE "left")
        ELSE IF k <= nl + nr THEN "right"
        ELSE IF k <= nl + nr + nt THEN "top"
        ELSE "bottom" ]

PlaceData(n, nl, nr, nt) ==
    [ components |-> [ k \in 1..n |-> Comp(CompIds[k], SideList(nl, nr, nt)) ],
      nets |-> << >> ]

PlaceDataSets ==
    { PlaceData(n, nl, nr, nt) :
        n \in 0..MaxComps, nl \in 0..MaxSidePins, nr \in 0..MaxSidePins, nt \in 0..1 }

\* findPathAStar inputs: a small window with few blocked cells, searched
\* within the window or within the window less its last column; and one
\* open field too large to be searched within MAX_ITER iterations.
AGridW == 3
AGridH == 3
MaxObstacles == 1

ACells == { Pt(cx, cy) : cx \in 0..(AGridW - 1), cy \in 0..(AGridH - 1) }
ABounds == { [ minX |-> 0, maxX |-> mx, minY |-> 0, maxY |-> AGridH - 1 ] :
               mx \in { AGridW - 2, AGridW - 1 } }
AObstacleSets == { o \in SUBSET ACells : Cardinality(o) <= MaxObstacles }
SmallInputs ==
    { [ start |-> s, end |-> e, obstacles |-> o, gridBounds |-> b ] :
        s \in ACells, e \in ACells, o \in AObstacleSets, b \in ABounds }
OpenField ==
    [ start |-> Pt(0, 0), end |-> Pt(90, 90), obstacles |-> { Pt(1, 1) },
      gridBounds |-> [ minX |-> 0, maxX |-> 79, minY |-> 0, maxY |-> 79 ] ]
AStarInputs == SmallInputs \cup { OpenField }

\* ------------------------------------------------------------------------
\* State
\* ------------------------------------------------------------------------
VARIABLES
    data,          \* props.data: components and nets
    positions,     \* useState positions: id -> [x, y, w, h]
    dragState,     \* useState dragState, NoDrag for null
    scale,         \* useState scale, in tenths (1.0 is 10)
    pan,           \* useState pan
    routes,        \* the routes memo of the last render
    placePending,  \* the position initialisation effect is scheduled
    moves,         \* number of mouse moves handled while dragging
    aIn,           \* arguments of a findPathAStar call
    aOut           \* its final loop state, NoCall before the call

viewVars == << data, positions, dragState, scale, pan, routes, placePending, moves >>
astarVars == << aIn, aOut >>
vars == << data, positions, dragState, scale, pan, routes, placePending, moves, aIn, aOut >>

NoDrag == [ id |-> "null", startX |-> 0, startY |-> 0, initialX |-> 0, initialY |-> 0 ]
NoCall == [ called |-> FALSE ]
NoInput == [ start |-> Pt(0, 0), end |-> Pt(0, 0), obstacles |-> {},
             gridBounds |-> [minX |-> 0, maxX |-> 0, minY |-> 0, maxY |-> 0] ]

\* ------------------------------------------------------------------------
\* The view: mount, effects and event handlers
\* ------------------------------------------------------------------------
Init ==
    /\ data \in DataSets
    /\ positions = NoPositions
    /\ dragState = NoDrag
    /\ scale = 10
    /\ pan = Pt(0, 0)
    /\ routes = ComputeRoutes(data, NoPositions)
    /\ placePending = TRUE
    /\ moves = 0
    /\ aIn = NoInput
    /\ aOut = NoCall

\* The effect without its early return: every run places the current
\* component list anew.
PlaceEffectAnew ==
    /\ placePending
    /\ placePending' = FALSE
    /\ positions' = InitialPositions(data.components)
    /\ routes' = ComputeRoutes(data, positions')
    /\ UNCHANGED << data, dragState, scale, pan, moves, aIn, aOut >>

\* useEffect(..., [data.components]) (lines 141-175), then the render that
\* follows setPositions.
PlaceEffect ==
    /\ placePending
    /\ placePending' = FALSE
    /\ positions' = IF DOMAIN positions # {} THEN positions
                    ELSE InitialPositions(data.components)
    /\ routes' = ComputeRoutes(data, positions')
    /\ UNCHANGED << data, dragState, scale, pan, moves, aIn, aOut >>

\* The components with a rendered <g> (line 393-395).
Rendered == { data.components[k].id : k \in DOMAIN data.components } \cap DOMAIN positions

handleMouseDown ==
    /\ ~placePending
    /\ \E e \in DownPts :
         dragState' = [ id |-> "pan", startX |-> e.x, startY |-> e.y,
                        initialX |-> pan.x, initialY |-> pan.y ]
    /\ UNCHANGED << data, positions, scale, pan, routes, placePending, moves,
                    aIn, aOut >>

handleCompDown ==
    /\ ~placePending
    /\ \E e \in DownPts, id \in Rendered :
         dragState' = [ id |-> id, startX |-> e.x, startY |-> e.y,
                        initialX |-> positions[id].x, initialY |-> positions[id].y ]
    /\ UNCHANGED << data, positions, scale, pan, routes, placePending, moves,
                    aIn, aOut >>

\* The dragged coordinate without the rounding to the grid.
SnapDragRaw(initial, delta, sc) == initial + ((delta * 10) \div sc)

\* The snapped coordinate of a dragged component (lines 317-329):
\* Math.round((initial + delta / scale) / GRID_SIZE) * GRID_SIZE.
SnapDrag(initial, delta, sc) == RoundDiv(initial * sc + delta * 10, sc * GRID_SIZE) * GRID_SIZE

\* Mutant: the new x and y are written to every entry.
MovePositionsAll(pos, ds, e, sc) ==
    [ id \in DOMAIN pos |->
        [ pos[id] EXCEPT !.x = SnapDrag(ds.initialX, e.x - ds.startX, sc),
                         !.y = SnapDrag(ds.initialY, e.y - ds.startY, sc) ] ]

MovePositions(pos, ds, e, sc) ==
    [ pos EXCEPT ![ds.id] = [ @ EXCEPT !.x = SnapDrag(ds.initialX, e.x - ds.startX, sc),
                                       !.y = SnapDrag(ds.initialY, e.y - ds.startY, sc) ] ]

handleMouseMove ==
    /\ ~placePending
    /\ \E e \in MovePts :
         IF dragState = NoDrag THEN
             UNCHANGED << positions, pan, routes, moves >>
         ELSE IF dragState.id = "pan" THEN
             /\ moves < MaxMoves
             /\ moves' = moves + 1
             /\ pan' = Pt(dragState.initialX + (e.x - dragState.startX),
                          dragState.initialY + (e.y - dragState.startY))
             /\ UNCHANGED << positions, routes >>
         ELSE
             /\ moves < MaxMoves
             /\ moves' = moves + 1
             /\ positions' = MovePositions(positions, dragState, e, scale)
             /\ routes' = ComputeRoutes(data, positions')
             /\ pan' = pan
    /\ UNCHANGED << data, dragState, scale, placePending, aIn, aOut >>

\* A mouse-up that also puts the dragged component back where the drag began.
handleMouseUpRevert ==
    /\ ~placePending
    /\ dragState' = NoDrag
    /\ positions' = IF dragState.id \in DOMAIN positions
                    THEN [ positions EXCEPT ![dragState.id] =
                             [ @ EXCEPT !.x = dragState.initialX, !.y = dragState.initialY ] ]
                    ELSE positions
    /\ routes' = ComputeRoutes(data, positions')
    /\ UNCHANGED << data, scale, pan, placePending, moves, aIn, aOut >>

\* onMouseUp and onMouseLeave of the canvas (lines 360-361).
handleMouseUp ==
    /\ ~placePending
    /\ dragState' = NoDrag
    /\ UNCHANGED << data, positions, scale, pan, routes, placePending, moves,
                    aIn, aOut >>

Next ==
    \/ PlaceEffect
    \/ handleMouseDown
    \/ handleCompDown
    \/ handleMouseMove
    \/ handleMouseUp

Spec == Init /\ [][Next]_vars

\* ------------------------------------------------------------------------
\* The view with its toolbar: zoom in, zoom out and pan reset besides the
\* mouse handlers, on scenario A
\* ------------------------------------------------------------------------
InitView ==
    /\ data = DataScenarioA
    /\ positions = NoPositions
    /\ dragState = NoDrag
    /\ scale = 10
    /\ pan = Pt(0, 0)
    /\ routes = ComputeRoutes(data, NoPositions)
    /\ placePending = TRUE
    /\ moves = 0
    /\ aIn = NoInput
    /\ aOut = NoCall

\* A zoom that is applied to the layout itself: every component moves one
\* grid cell to the right and the routes follow.
ZoomInLayout ==
    /\ ~placePending
    /\ scale < 10 + MaxZoom
    /\ scale' = Min2(scale + 1, 30)
    /\ positions' = [ id \in DOMAIN positions |->
                        [ positions[id] EXCEPT !.x = @ + GRID_SIZE ] ]
    /\ routes' = ComputeRoutes(data, positions')
    /\ UNCHANGED << data, dragState, pan, placePending, moves, aIn, aOut >>

\* setScale(s => Math.min(s + 0.1, 3)) (line 342), at most MaxZoom steps
\* above 1.
ZoomIn ==
    /\ ~placePending
    /\ scale < 10 + MaxZoom
    /\ scale' = Min2(scale + 1, 30)
    /\ UNCHANGED << data, positions, dragState, pan, routes, placePending, moves,
                    aIn, aOut >>

\* setScale(s => Math.max(s - 0.1, 0.5)) (line 343), at most MaxZoom steps
\* below 1.
ZoomOut ==
    /\ ~placePending
    /\ scale > 10 - MaxZoom
    /\ scale' = Max2(scale - 1, 5)
    /\ UNCHANGED << data, positions, dragState, pan, routes, placePending, moves,
                    aIn, aOut >>

\* setPan({x: 0, y: 0}) (line 344)
ResetPan ==
    /\ ~placePending
    /\ pan' = Pt(0, 0)
    /\ UNCHANGED << data, positions, dragState, scale, routes, placePending, moves,
                    aIn, aOut >>

\* The two components of the net are the ones dragged.
NextView ==
    \/ PlaceEffect
    \/ handleMouseDown
    \/ (handleCompDown /\ dragState'.id \in { "U1", "U2" })
    \/ handleMouseMove
    \/ handleMouseUp
    \/ ZoomIn
    \/ ZoomOut
    \/ ResetPan

SpecView == InitView /\ [][NextView]_vars

\* ------------------------------------------------------------------------
\* The view under changing props: the parent passes new data to the mounted
\* view, components are dragged in between
\* ------------------------------------------------------------------------
InitData ==
    /\ data \in UpdateSets
    /\ positions = NoPositions
    /\ dragState = NoDrag
    /\ scale = 10
    /\ pan = Pt(0, 0)
    /\ routes = ComputeRoutes(data, NoPositions)
    /\ placePending = TRUE
    /\ moves = 0
    /\ aIn = NoInput
    /\ aOut = NoCall

\* A change of props.data after which the routes memo keeps its old value.
SetDataStaleRoutes ==
    /\ ~placePending
    /\ \E d \in UpdateSets \ { data } :
         /\ data' = d
         /\ placePending' = (d.components # data.components)
    /\ UNCHANGED << positions, dragState, scale, pan, routes, moves, aIn, aOut >>

\* A render with new props.data: the routes memo recomputes (dependencies,
\* line 291) and the position effect is scheduled when data.components
\* changed (dependency, line 175).  The state hooks keep their values.
SetData ==
    /\ ~placePending
    /\ \E d \in UpdateSets \ { data } :
         /\ data' = d
         /\ routes' = ComputeRoutes(d, positions)
         /\ placePending' = (d.components # data.components)
    /\ UNCHANGED << positions, dragState, scale, pan, moves, aIn, aOut >>

NextData ==
    \/ PlaceEffect
    \/ SetData
    \/ (handleCompDown /\ dragState'.id \in DraggedInData)
    \/ handleMouseMove
    \/ handleMouseUp

SpecData == InitData /\ [][NextData]_vars

\* ------------------------------------------------------------------------
\* Mount and placement alone, over the placement inputs and the data with
\* unmatched pin identifiers
\* ------------------------------------------------------------------------
InitPlace ==
    /\ data \in PlaceDataSets \cup { DataLenient, DataPins }
    /\ positions = NoPositions
    /\ dragState = NoDrag
    /\ scale = 10
    /\ pan = Pt(0, 0)
    /\ routes = ComputeRoutes(data, NoPositions)
    /\ placePending = TRUE
    /\ moves = 0
    /\ aIn = NoInput
    /\ aOut = NoCall

NextPlace == PlaceEffect

SpecPlace == InitPlace /\ [][NextPlace]_vars

\* ------------------------------------------------------------------------
\* findPathAStar alone, over the findPathAStar inputs
\* ------------------------------------------------------------------------
InitAStar ==
    /\ data = [ components |-> << >>, nets |-> << >> ]
    /\ positions = NoPositions
    /\ dragState = NoDrag
    /\ scale = 10
    /\ pan = Pt(0, 0)
    /\ routes = << >>
    /\ placePending = FALSE
    /\ moves = 0
    /\ aIn \in AStarInputs
    /\ aOut = NoCall

CallFindPath ==
    /\ ~aOut.called
    /\ aOut' = [ called |-> TRUE,
                 run |-> AStarRun(aIn.start, aIn.end, aIn.obstacles, aIn.gridBounds) ]
    /\ UNCHANGED << viewVars, aIn >>

NextAStar == CallFindPath

SpecAStar == InitAStar /\ [][NextAStar]_vars

\* ------------------------------------------------------------------------
\* The router as a whole: findPathAStar over its inputs, and the view on the
\* board and on the data with unmatched pin identifiers
\* ------------------------------------------------------------------------
InitRouter ==
    \/ InitAStar
    \/ /\ data \in { DataBoard, DataLenient }
       /\ positions = NoPositions
       /\ dragState = NoDrag
       /\ scale = 10
       /\ pan = Pt(0, 0)
       /\ routes = ComputeRoutes(data, NoPositions)
       /\ placePending = TRUE
       /\ moves = 0
       /\ aIn = NoInput
       /\ aOut = NoCall

\* Components are dragged on the board only.
NextRouter ==
    \/ PlaceEffect
    \/ (handleCompDown /\ data = DataBoard)
    \/ handleMouseMove
    \/ handleMouseUp
    \/ (aIn \in AStarInputs /\ CallFindPath)

SpecRouter == InitRouter /\ [][NextRouter]_vars

\* ========================================================================
\* Properties
\* ========================================================================

\* C1: every call of findPathAStar returns at least two points, the first
\* being start and the last being end, however the loop was left.
C1_PathJoinsStartToEnd ==
    aOut.called =>
        LET path == aOut.run.path
        IN  /\ Len(path) >= 2
            /\ path[1] = aIn.start
            /\ path[Len(path)] = aIn.end

\* A call that left the loop at the iteration cap with cells still queued.
C1_CapReached ==
    /\ aOut.called
    /\ ~aOut.run.found
    /\ aOut.run.iterations = MAX_ITER
    /\ aOut.run.queue # << >>

\* Cost of a unit-step path: 10 per step and 50 more for every step whose
\* direction differs from that of the step before.
RECURSIVE PathCostFrom(_, _)
PathCostFrom(path, i) ==
    IF i > Len(path) THEN 0
    ELSE LET d == Pt(path[i].x - path[i - 1].x, path[i].y - path[i - 1].y)
             turn == i > 2 /\ d # Pt(path[i - 1].x - path[i - 2].x, path[i - 1].y - path[i - 2].y)
         IN  10 + (IF turn THEN 50 ELSE 0) + PathCostFrom(path, i + 1)

PathCost(path) == PathCostFrom(path, 2)

\* The least cost of a unit-step path from in.start to in.end whose cells
\* after the first are inside the bounds and not blocked (in.end exempt):
\* shortest distances over (cell, direction of arrival), relaxed to a fixpoint.
Passable(in) ==
    { c \in { Pt(cx, cy) : cx \in in.gridBounds.minX..in.gridBounds.maxX,
                           cy \in in.gridBounds.minY..in.gridBounds.maxY } :
        c \notin in.obstacles \/ c = in.end }

Arrive(in, dist, c, k) ==
    LET from == Pt(c.x - dirs[k].x, c.y - dirs[k].y)
        first == IF from = in.start THEN {10} ELSE {}
        onward == IF from \in Passable(in)
                  THEN { dist[<<from, j>>] + 10 + (IF j = k THEN 0 ELSE 50) : j \in 1..4 }
                  ELSE {}
        all == first \cup onward \cup { dist[<<c, k>>] }
    IN  CHOOSE m \in all : \A n \in all : m <= n

RECURSIVE Relaxed(_, _)
Relaxed(in, dist) ==
    LET next == [ ck \in DOMAIN dist |-> Arrive(in, dist, ck[1], ck[2]) ]
    IN  IF next = dist THEN dist ELSE Relaxed(in, next)

MinCost(in) ==
    IF in.start = in.end THEN 0
    ELSE LET dist == Relaxed(in, [ ck \in Passable(in) \X (1..4) |-> 1000000 ])
             ends == { dist[<<in.end, k>>] : k \in 1..4 }
         IN  CHOOSE m \in ends : \A n \in ends : m <= n

\* C2: a path found by the search has the least cost of all admissible paths.
C2_FoundPathHasMinCost ==
    (aOut.called /\ aOut.run.found) => PathCost(aOut.run.raw) = MinCost(aIn)

\* ------------------------------------------------------------------------
\* Routes and the connections they come from
\* ------------------------------------------------------------------------
Placed == DOMAIN positions # {}

\* The connections of a net whose component is listed and placed.
Resolvable(conn) ==
    /\ \E k \in DOMAIN data.components : data.components[k].id = conn.componentId
    /\ conn.componentId \in DOMAIN positions

ResolvedConns(net) == SelectSeq(net.connections, Resolvable)

RoutesOfNet(rs, netId) == SelectSeq(rs, LAMBDA r : r.id[1] = netId)

\* The pin locator's pixel location of a resolvable connection.
LocateConn(conn) ==
    LocatePin(data.components[FindComp(data.components, conn.componentId, 1)],
              positions[conn.componentId], conn.pin)

\* The point pt is exactly the located pixel position.
ExactlyAt(pt, loc) == pt.x * loc.xDen = loc.xNum /\ pt.y = loc.py

\* C3: the first and the last point of every route are the exact pixel
\* locations of the pins of the two connections the route joins.
C3_RoutesEndOnExactPins ==
    \A n \in DOMAIN data.nets :
        LET net == data.nets[n]
            rs == RoutesOfNet(routes, net.id)
            conns == ResolvedConns(net)
        IN  \A i \in DOMAIN rs :
                /\ i + 1 <= Len(conns)
                /\ ExactlyAt(rs[i].path[1], LocateConn(conns[i]))
                /\ ExactlyAt(rs[i].path[Len(rs[i].path)], LocateConn(conns[i + 1]))

\* C4: every placement entry and every route point is a multiple of the
\* grid quantum.
OnGrid(v) == v % 20 = 0
C4_EverythingOnGrid ==
    /\ \A id \in DOMAIN positions :
          /\ OnGrid(positions[id].x) /\ OnGrid(positions[id].y)
          /\ OnGrid(positions[id].w) /\ OnGrid(positions[id].h)
    /\ \A r \in DOMAIN routes : \A k \in DOMAIN routes[r].path :
          OnGrid(routes[r].path[k].x) /\ OnGrid(routes[r].path[k].y)

\* Number of bends of a polyline: changes of direction between consecutive
\* segments of non-zero length.
Sign(n) == IF n > 0 THEN 1 ELSE IF n < 0 THEN -1 ELSE 0
RECURSIVE Distinct(_)
Distinct(path) ==
    IF Len(path) < 2 THEN path
    ELSE IF path[1] = path[2] THEN Distinct(Tail(path))
    ELSE <<path[1]>> \o Distinct(Tail(path))

SegDir(path, i) == Pt(Sign(path[i + 1].x - path[i].x), Sign(path[i + 1].y - path[i].y))
Bends(path) ==
    LET q == Distinct(path)
    IN  Cardinality({ i \in 1..(Len(q) - 2) : SegDir(q, i) # SegDir(q, i + 1) })
AxisAligned(path) ==
    \A i \in 1..(Len(path) - 1) : path[i].x = path[i + 1].x \/ path[i].y = path[i + 1].y

\* Scenario A: the right pin of U1 faces the left pin of U2, the two
\* components being 300 px apart on one row.
ScenarioA ==
    /\ data = DataScenarioA
    /\ Placed
    /\ positions["U2"].x - positions["U1"].x = 300
    /\ positions["U2"].y = positions["U1"].y

\* The grid cells of the straight line between the two pins, and whether a
\* blocked cell of the third component lies on it.
ScenarioALine ==
    LET pts == pinPointsOf(data.components, positions, data.nets[1])
    IN  { Pt(cx, pts[1].p.y) : cx \in pts[1].p.x..pts[2].p.x }
ScenarioAObstructed == BlockedOf(positions["U3"]) \cap ScenarioALine # {}

\* C5: in scenario A there is exactly one route; it is straight when the
\* line is free and has two bends exactly when the third component blocks it.
C5_ScenarioARoute ==
    ScenarioA =>
        /\ Len(routes) = 1
        /\ AxisAligned(routes[1].path)
        /\ (~ScenarioAObstructed => Bends(routes[1].path) = 0)
        /\ (Bends(routes[1].path) = 2 <=> ScenarioAObstructed)

\* C6: a net with N resolved connections has N-1 routes (none when N < 2);
\* route i has id netId-i and runs from resolved point i to resolved point i+1.
C6_ChainOfRoutes ==
    \A n \in DOMAIN data.nets :
        LET net == data.nets[n]
            rs == RoutesOfNet(routes, net.id)
            N == Cardinality({ k \in DOMAIN net.connections : Resolvable(net.connections[k]) })
            pts == pinPointsOf(data.components, positions, net)
        IN  /\ Len(rs) = (IF N >= 2 THEN N - 1 ELSE 0)
            /\ \A i \in DOMAIN rs :
                  /\ rs[i].id = <<net.id, i - 1>>
                  /\ rs[i].path[1] = Pt(toPx(pts[i].p.x), toPx(pts[i].p.y))
                  /\ rs[i].path[Len(rs[i].path)] = Pt(toPx(pts[i + 1].p.x), toPx(pts[i + 1].p.y))

\* The 3-connection net of the board has its two routes, a net with one
\* resolved connection has none.
C6_ThreeConnectionNetRouted ==
    /\ data = DataBoard
    /\ Placed
    /\ Len(RoutesOfNet(routes, "N1")) = 2
    /\ Len(RoutesOfNet(routes, "N4")) = 0

\* C7: a drag step changes no route of a net without a connection to the
\* dragged component.
Touches(net, id) == \E k \in DOMAIN net.connections : net.connections[k].componentId = id
ColorByName(name) ==
    IF includes(name, <<"G", "N", "D">>) THEN GroundColor
    ELSE IF includes(name, <<"V", "C", "C">>) \/ includes(name, <<"3", "V", "3">>)
            \/ includes(name, <<"5", "V">>) THEN PowerColor
    ELSE SignalColor
ColorByClass(net) ==
    CASE net.type = "power" -> PowerColor
      [] net.type = "ground" -> GroundColor
      [] net.type = "signal" -> SignalColor
      [] OTHER -> ColorByName(net.name)
C8_ColorFollowsClass ==
    \A n \in DOMAIN data.nets :
        LET rs == RoutesOfNet(routes, data.nets[n].id)
        IN  \A i \in DOMAIN rs : rs[i].color = ColorByClass(data.nets[n])

\* C9: after the initial placement no two components overlap.
Overlap(a, b) ==
    /\ a.x <= b.x + b.w /\ b.x <= a.x + a.w
    /\ a.y <= b.y + b.h /\ b.y <= a.y + a.h
C9_InitialPlacementDisjoint ==
    \A a \in DOMAIN positions, b \in DOMAIN positions :
        a # b => ~Overlap(positions[a], positions[b])

\* Pins of a component on the given sides, counted from the pin list.
CountSides(comp, sides) == Cardinality({ k \in DOMAIN comp.pins : comp.pins[k].side \in sides })
TallerSide(comp) == Max2(CountSides(comp, {"left", "none"}), CountSides(comp, {"right"}))
RoundUp20(v) == ((v + 19) \div 20) * 20

\* C10 as stated: the height is ceil(max(contentHeight, minHeight) / Q) * Q.
C10_HeightWithoutPadding ==
    \A k \in DOMAIN data.components :
        data.components[k].id \in DOMAIN positions =>
            positions[data.components[k].id].h
                = RoundUp20(Max2(40 + 2 * 20 * TallerSide(data.components[k]), 100))

\* C10 amended: the height is ceil((max(contentHeight, minHeight) + 40) / Q) * Q
\* with contentHeight = 40 + 2 * 20 * max(left count, right count); top and
\* bottom pins do not count, and a component without pins is 140 high.
C10_HeightWithPadding ==
    \A k \in DOMAIN data.components :
        data.components[k].id \in DOMAIN positions =>
            positions[data.components[k].id].h
                = RoundUp20(Max2(40 + 2 * 20 * TallerSide(data.components[k]), 100) + 40)

\* A placed component with 5 left pins and 1 right pin, as high as 5 pins ask.
C10_FiveLeftOneRightPlaced ==
    \E k \in DOMAIN data.components :
        /\ data.components[k].id \in DOMAIN positions
        /\ CountSides(data.components[k], {"left", "none"}) = 5
        /\ CountSides(data.components[k], {"right"}) = 1
        /\ positions[data.components[k].id].h = 280

\* The pin identifier of a resolvable connection names no pin of its
\* component, neither by number nor by name.
NoSuchPin(conn) ==
    LET comp == data.components[FindComp(data.components, conn.componentId, 1)]
    IN  \A k \in DOMAIN comp.pins :
            /\ String(comp.pins[k].pinNumber) # String(conn.pin)
            /\ comp.pins[k].name # String(conn.pin)

\* C11: a resolvable connection whose pin identifier matches no pin is kept
\* in its net's chain: the net has one route per pair of consecutive
\* resolvable connections, and the routes that meet at the unmatched
\* connection begin or end on the fallback point (0, 0).
C11_UnmatchedPinKeepsItsPoint ==
    \A n \in DOMAIN data.nets :
        LET net == data.nets[n]
            rs == RoutesOfNet(routes, net.id)
            conns == ResolvedConns(net)
        IN  /\ Len(rs) = (IF Len(conns) >= 2 THEN Len(conns) - 1 ELSE 0)
            /\ \A i \in DOMAIN conns :
                  NoSuchPin(conns[i]) =>
                      /\ i <= Len(rs) => rs[i].path[1] = Pt(0, 0)
                      /\ (i >= 2 /\ i - 1 <= Len(rs)) =>
                             rs[i - 1].path[Len(rs[i - 1].path)] = Pt(0, 0)

\* The nets with an unmatched first, an unmatched second and two unmatched
\* pin identifiers have one route each, the net of one connection none.
C11_UnmatchedNetsRouted ==
    /\ data = DataLenient
    /\ Placed
    /\ Len(RoutesOfNet(routes, "L1")) = 1
    /\ Len(RoutesOfNet(routes, "L2")) = 1
    /\ Len(RoutesOfNet(routes, "L3")) = 1
    /\ Len(RoutesOfNet(routes, "L4")) = 0
    /\ NoSuchPin(data.nets[1].connections[1])
    /\ NoSuchPin(data.nets[2].connections[2])

\* The pixel point of the grid cell a resolvable connection's pin snaps to.
SnappedPin(conn) ==
    LET q == PinPoint(LocateConn(conn)).p
    IN  Pt(toPx(q.x), toPx(q.y))

\* C12: a connection whose component is not listed or not placed adds no
\* point: the routes of a net join its remaining connections in order, one
\* route per consecutive pair, and there is none when fewer than two remain.
C12_MissingComponentSkipped ==
    \A n \in DOMAIN data.nets :
        LET net == data.nets[n]
            rs == RoutesOfNet(routes, net.id)
            conns == ResolvedConns(net)
        IN  /\ Len(rs) = (IF Len(conns) < 2 THEN 0 ELSE Len(conns) - 1)
            /\ \A i \in DOMAIN rs :
                  /\ rs[i].path[1] = SnappedPin(conns[i])
                  /\ rs[i].path[Len(rs[i].path)] = SnappedPin(conns[i + 1])

\* A fourth component was added after the first population and has no
\* placement: the 3-connection net through it has one route, joining its
\* first and third connection, and the net from it to a placed component
\* has none.
C12_ChainAcrossUnplaced ==
    /\ data = DataGrown
    /\ ~placePending
    /\ "U4" \notin DOMAIN positions
    /\ Len(RoutesOfNet(routes, "N2")) = 1
    /\ Len(RoutesOfNet(routes, "N4")) = 0

\* C13: any two consecutive points of a route, and of a path returned by
\* findPathAStar, share their x or their y coordinate.
C13_SegmentsAxisAligned ==
    /\ \A i \in DOMAIN routes : AxisAligned(routes[i].path)
    /\ aOut.called => AxisAligned(aOut.run.path)

\* The search found a path with at least two bends.
C13_FoundPathWithBends ==
    /\ aOut.called
    /\ aOut.run.found
    /\ Bends(aOut.run.path) >= 2

\* C14: a run of the position effect on a non-empty placement map leaves the
\* map as it is.
C14_PlacerKeepsPopulatedMap ==
    [][(placePending /\ ~placePending' /\ Placed) => positions' = positions]_vars

\* The effect has run for a component list with a fourth component while the
\* map held the first three, one of them moved by a drag.
C14_RerunAfterDrag ==
    /\ data = DataGrown
    /\ ~placePending
    /\ DOMAIN positions = { "U1", "U2", "U3" }
    /\ positions # InitialPositions(DataScenarioA.components)

\* C15: once the position effect has run for the current component list,
\* every component of the list has a placement entry.
C15_EveryComponentPlaced ==
    ~placePending =>
        \A k \in DOMAIN data.components : data.components[k].id \in DOMAIN positions

\* C16: a mouse move while a component is dragged changes the x and the y of
\* that component's entry only, both to multiples of 20; its w and h and
\* every other entry stay as they are.
C16_DragWritesSnappedXY ==
    [][(dragState.id \notin { "null", "pan" } /\ moves' # moves) =>
          /\ DOMAIN positions' = DOMAIN positions
          /\ \A id \in DOMAIN positions :
                IF id = dragState.id
                THEN /\ positions'[id].w = positions[id].w
                     /\ positions'[id].h = positions[id].h
                     /\ OnGrid(positions'[id].x)
                     /\ OnGrid(positions'[id].y)
                ELSE positions'[id] = positions[id]]_vars

\* U1 was dragged 320 px to the left at scale 1.1: 60 - 290.9 rounds to -240.
C16_DraggedUnderZoom ==
    /\ dragState.id = "U1"
    /\ scale = 11
    /\ positions["U1"].x = -240
    /\ positions["U2"] = InitialPositions(data.components)["U2"]

\* C17: a step that changes the scale or the pan offset, or that begins,
\* moves or ends a canvas drag, changes neither the placement map nor the
\* routes.
C17_PanZoomKeepLayout ==
    [][(scale' # scale \/ pan' # pan \/ dragState.id = "pan" \/ dragState'.id = "pan") =>
          (positions' = positions /\ routes' = routes)]_vars

\* The canvas is being panned at a changed scale, with a net routed.
C17_PannedAndZoomed ==
    /\ Placed
    /\ dragState.id = "pan"
    /\ pan # Pt(0, 0)
    /\ scale # 10
    /\ Len(routes) = 1

\* C19: the access point of every pin matched on a placed component is not
\* a blocked cell of the obstacle field built from the placements.
C19_AccessPointsFree ==
    \A n \in DOMAIN data.nets :
        \A k \in DOMAIN data.nets[n].connections :
            LET conn == data.nets[n].connections[k]
            IN  (Resolvable(conn) /\ ~NoSuchPin(conn)) =>
                    LET q == PinPoint(LocateConn(conn))
                    IN  getAccessPoint(q.p, q.side) \notin BuildBlocked(positions)

\* The cells that unit steps from in.start reach through cells inside the
\* bounds that are not blocked (in.end exempt).
RECURSIVE ReachFrom(_, _)
ReachFrom(in, R) ==
    LET more == { c \in Passable(in) :
                    \E k \in 1..4 : Pt(c.x - dirs[k].x, c.y - dirs[k].y) \in R }
    IN  IF more \subseteq R THEN R ELSE ReachFrom(in, R \cup more)

Reachable(in) == in.end \in ReachFrom(in, { in.start })

\* C20: unless the iteration cap ended the search, findPathAStar returns a
\* path found by the search exactly when the end is reachable, and every
\* point of a found path other than the start cell lies inside the bounds.
C20_FallbackOnlyWhenUnreachable ==
    aOut.called =>
        LET run == aOut.run
        IN  IF ~run.found /\ run.iterations >= MAX_ITER THEN TRUE
            ELSE /\ run.found <=> Reachable(aIn)
                 /\ run.found =>
                        \A i \in DOMAIN run.path :
                            run.path[i] = aIn.start \/ InBounds(run.path[i], aIn.gridBounds)

\* The search found a path of several cells to an end that is a blocked cell.
C20_FoundBlockedEnd ==
    /\ aOut.called
    /\ aOut.run.found
    /\ aIn.end \in aIn.obstacles
    /\ Len(aOut.run.raw) >= 4

\* The cells of the straight run from a to b, both included.
CellsBetween(a, b) ==
    { Pt(cx, cy) : cx \in Min2(a.x, b.x)..Max2(a.x, b.x),
                   cy \in Min2(a.y, b.y)..Max2(a.y, b.y) }

\* The cells a path of corner points passes over.
CellsOn(path) == UNION { CellsBetween(path[i], path[i + 1]) : i \in 1..(Len(path) - 1) }

\* C21: a path found by the search passes over no blocked cell other than
\* its start cell and its end cell, on the raw cell path and on the straight
\* runs between the corner points that are returned.
C21_FoundPathAvoidsBlocked ==
    (aOut.called /\ aOut.run.found) =>
        /\ \A i \in DOMAIN aOut.run.raw :
              aOut.run.raw[i] \in aIn.obstacles => aOut.run.raw[i] \in { aIn.start, aIn.end }
        /\ \A c \in CellsOn(aOut.run.path) :
              c \in aIn.obstacles => c \in { aIn.start, aIn.end }

\* A path was found around a blocked cell that lies on the straight line
\* between start and end.
C21_FoundAroundBlockedCell ==
    /\ aOut.called
    /\ aOut.run.found
    /\ aIn.start.y = aIn.end.y
    /\ \E o \in aIn.obstacles : o.y = aIn.start.y /\ aIn.start.x < o.x /\ o.x < aIn.end.x
    /\ Bends(aOut.run.path) >= 2

\* The step from path[i] to path[i + 1] as a vector.
StepOf(path, i) == Pt(path[i + 1].x - path[i].x, path[i + 1].y - path[i].y)

\* The interior cells of a raw cell path at which the step direction changes,
\* in path order.
RECURSIVE RawBendsFrom(_, _)
RawBendsFrom(raw, i) ==
    IF i >= Len(raw) THEN << >>
    ELSE (IF StepOf(raw, i - 1) # StepOf(raw, i) THEN <<raw[i]>> ELSE << >>)
         \o RawBendsFrom(raw, i + 1)

Collinear(a, b, c) == (a.x = b.x /\ b.x = c.x) \/ (a.y = b.y /\ b.y = c.y)

\* C22: the path returned on success begins with the start and ends with the
\* end, its interior points are exactly the bends of the raw cell path, in
\* order, and none of them is collinear with its two neighbours in the output.
C22_SimplifiedPathIsBends ==
    (aOut.called /\ aOut.run.found) =>
        LET path == aOut.run.path
            raw == aOut.run.raw
        IN  /\ path[1] = aIn.start
            /\ path[Len(path)] = aIn.end
            /\ path = <<raw[1]>> \o RawBendsFrom(raw, 2) \o <<raw[Len(raw)]>>
            /\ \A i \in 2..(Len(path) - 1) : ~Collinear(path[i - 1], path[i], path[i + 1])

\* A raw path of five cells with one bend was reduced to its three corners.
C22_RunsCollapsed ==
    /\ aOut.called
    /\ aOut.run.found
    /\ Len(aOut.run.raw) = 5
    /\ Len(aOut.run.path) = 3

\* The pin lookup stated by its rule.  The groups in their order of search,
\* as sets of indices into the component's pin list:
GroupOrder == << "left", "right", "top", "bottom" >>
GroupOf(comp, g) ==
    { k \in DOMAIN comp.pins :
        IF g = "left" THEN comp.pins[k].side \in { "left", "none" } ELSE comp.pins[k].side = g }
PinMatches(comp, k, pin) ==
    String(comp.pins[k].pinNumber) = String(pin) \/ comp.pins[k].name = String(pin)
GroupHits(comp, g, pin) == { k \in GroupOf(comp, g) : PinMatches(comp, k, pin) }

\* The expected location of a pin that some group holds: the first group in
\* the order with a matching pin, the first matching pin of that group, its
\* 0-based index in the group, and the coordinates of the rule; x is the
\* fraction xNum / xDen.
ExpectedPin(comp, pos, pin) ==
    LET gi == CHOOSE i \in 1..4 :
                  /\ GroupHits(comp, GroupOrder[i], pin) # {}
                  /\ \A j \in 1..(i - 1) : GroupHits(comp, GroupOrder[j], pin) = {}
        g == GroupOrder[gi]
        m == CHOOSE k \in GroupHits(comp, g, pin) : \A j \in GroupHits(comp, g, pin) : k <= j
        index == Cardinality({ j \in GroupOf(comp, g) : j < m })
        size == Cardinality(GroupOf(comp, g))
    IN  [ side |-> g,
          xNum |-> IF g = "left" THEN pos.x
                   ELSE IF g = "right" THEN pos.x + pos.w
                   ELSE pos.x * (size + 1) + pos.w * (index + 1),
          xDen |-> IF g \in { "left", "right" } THEN 1 ELSE size + 1,
          y |-> IF g \in { "left", "right" } THEN pos.y + 40 + 20 + index * 40
                ELSE IF g = "top" THEN pos.y
                ELSE pos.y + pos.h ]

\* C23: for every resolvable connection whose identifier names a pin, the
\* located pin is the one the lookup rule gives: same side, same x (as a
\* fraction) and same y; and the route that starts at the connection starts
\* on the snapped location and leaves it towards that side.
C23_PinLookupFollowsRule ==
    \A n \in DOMAIN data.nets :
        LET net == data.nets[n]
            rs == RoutesOfNet(routes, net.id)
            conns == ResolvedConns(net)
        IN  \A i \in DOMAIN conns :
                ~NoSuchPin(conns[i]) =>
                    LET comp == data.components[FindComp(data.components, conns[i].componentId, 1)]
                        e == ExpectedPin(comp, positions[conns[i].componentId], conns[i].pin)
                        loc == LocateConn(conns[i])
                        cell == Pt(toGridFrac(e.xNum, e.xDen), toGrid(e.y))
                        out == getAccessPoint(cell, e.side)
                    IN  /\ loc.side = e.side
                        /\ loc.xNum * e.xDen = e.xNum * loc.xDen
                        /\ loc.py = e.y
                        /\ i <= Len(rs) =>
                              /\ rs[i].path[1] = Pt(toPx(cell.x), toPx(cell.y))
                              /\ rs[i].path[2] = Pt(toPx(out.x), toPx(out.y))

\* The component with shared identifiers is placed: identifier 2 is the
\* number of a right pin and the name of a left pin, and its route leaves to
\* the left; name A is on a top and on a right pin, and its route leaves to
\* the right.
C23_SharedIdentifiersRouted ==
    /\ data = DataPins
    /\ Placed
    /\ Len(routes) = Len(PinIds)
    /\ routes[2].path[2].x < routes[2].path[1].x
    /\ routes[4].path[2].x > routes[4].path[1].x

\* The cell c lies in the padded rectangle of the placement entry p.
InPadded(c, p) ==
    /\ toGrid(p.x) - 2 <= c.x /\ c.x <= toGrid(p.x) + toGrid(p.w) + 2
    /\ toGrid(p.y) - 2 <= c.y /\ c.y <= toGrid(p.y) + toGrid(p.h) + 2

\* The cells diagonally outside the corners of the padded rectangle of p.
OutsideCorners(p) ==
    { Pt(cx, cy) : cx \in { toGrid(p.x) - 3, toGrid(p.x) + toGrid(p.w) + 3 },
                   cy \in { toGrid(p.y) - 3, toGrid(p.y) + toGrid(p.h) + 3 } }

\* C24: the blocked set of a routing pass over the current placement map is
\* the union of the padded rectangles of its entries: every blocked cell lies
\* in the padded rectangle of some entry, every cell of every padded
\* rectangle is blocked, and a cell next to a rectangle is blocked only when
\* another entry's rectangle holds it.
C24_BlockedIsPaddedUnion ==
    LET blocked == BuildBlocked(positions)
    IN  /\ \A c \in blocked : \E id \in DOMAIN positions : InPadded(c, positions[id])
        /\ \A id \in DOMAIN positions :
              /\ \A cx \in (toGrid(positions[id].x) - 2)..(toGrid(positions[id].x) + toGrid(positions[id].w) + 2),
                    cy \in (toGrid(positions[id].y) - 2)..(toGrid(positions[id].y) + toGrid(positions[id].h) + 2) :
                      Pt(cx, cy) \in blocked
              /\ \A c \in OutsideCorners(positions[id]) :
                    c \in blocked => \E other \in DOMAIN positions : InPadded(c, positions[other])

\* U1 of the board was dragged 320 px to the left: a cell of its old
\* footprint is free, a cell of its new one is blocked.
C24_OldFootprintFree ==
    /\ data = DataBoard
    /\ Placed
    /\ positions["U1"].x = -260
    /\ Pt(3, 3) \notin BuildBlocked(positions)
    /\ Pt(-15, 1) \in BuildBlocked(positions)

\* C25: after the first placement the k-th component of the list (k from 0)
\* is at column k mod 3 and row k div 3: x = 60 + 320 * column,
\* y = 60 + 350 * row, and its width is 220.
C25_RowMajorFlow ==
    (~placePending /\ Placed) =>
        \A k \in DOMAIN data.components :
            LET entry == positions[data.components[k].id]
            IN  /\ entry.x = 60 + 320 * ((k - 1) % 3)
                /\ entry.y = 60 + 350 * ((k - 1) \div 3)
                /\ entry.w = 220

\* Four components are placed: the fourth begins the second row.
C25_FourthStartsSecondRow ==
    /\ ~placePending
    /\ Len(data.components) = 4
    /\ data.nets = << >>
    /\ positions[data.components[3].id].x = 700
    /\ positions[data.components[4].id].x = 60
    /\ positions[data.components[4].id].y = 410

\* C26: in every render, and so once the effects have run, the route list
\* is the routing function applied to the current components, nets and
\* placement map; the onLayoutChange effect of a render passes on this
\* placement map and this route list.
C26_RoutesFollowState == routes = ComputeRoutes(data, positions)

\* The component list shrank after a drag: the net to the removed component
\* lost its route and the other net runs from the dragged position.
C26_RoutedAfterDragAndShrink ==
    /\ data = DataShrunk
    /\ ~placePending
    /\ DOMAIN positions = { "U1", "U2", "U3" }
    /\ positions["U2"] # InitialPositions(DataScenarioA.components)["U2"]
    /\ Len(routes) = 1
    /\ routes[1].path[Len(routes[1].path)] = Pt(positions["U2"].x, positions["U2"].y + 60)

\* C27: every findPathAStar call has returned after at most MAX_ITER
\* dequeues, and a routing pass has made one call, hence one route, per
\* consecutive pair of the points its nets resolve to.
C27_SearchAndPassTerminate ==
    /\ aOut.called => (aOut.run.done /\ aOut.run.iterations <= MAX_ITER)
    /\ Len(routes) =
         Cardinality(UNION { { <<n, i>> : i \in 1..(Len(ResolvedConns(data.nets[n])) - 1) } :
                             n \in DOMAIN data.nets })

\* A call was stopped by the cap after it had reached more cells than the
\* cap allows it to dequeue.
C27_StoppedByCap ==
    /\ aOut.called
    /\ aOut.run.done
    /\ aOut.run.iterations = MAX_ITER
    /\ Cardinality(DOMAIN aOut.run.visited) > MAX_ITER

\* C28: a step changes the placement map only if it is the first population
\* of the empty map, or a mouse move while a component is dragged, and then
\* only the entry of the dragged component; a step with no drag or with a
\* canvas drag, a mouse-down and a mouse-up leave every entry as it is.
C28_OnlyPopulationAndDragMoves ==
    [][positions' # positions =>
          \/ (placePending /\ DOMAIN positions = {})
          \/ /\ dragState.id \notin { "null", "pan" }
             /\ dragState' = dragState
             /\ moves' = moves + 1
             /\ DOMAIN positions' = DOMAIN positions
             /\ \A id \in DOMAIN positions \ { dragState.id } :
                   positions'[id] = positions[id]]_vars

\* A drag has moved a component of scenario A and the mouse was released.
C28_DroppedAfterDrag ==
    /\ data = DataScenarioA
    /\ Placed
    /\ dragState = NoDrag
    /\ moves >= 1
    /\ positions # InitialPositions(data.components)

\* C29: consecutive routes of a net meet: the last point of a route is the
\* first point of the next, and it is the snapped location of the resolved
\* connection between them.
C29_RoutesOfNetMeet ==
    \A n \in DOMAIN data.nets :
        LET net == data.nets[n]
            rs == RoutesOfNet(routes, net.id)
            conns == ResolvedConns(net)
        IN  \A i \in 1..(Len(rs) - 1) :
                /\ rs[i].path[Len(rs[i].path)] = rs[i + 1].path[1]
                /\ rs[i + 1].path[1] = SnappedPin(conns[i + 1])

\* The middle component of the board's 3-connection net is being dragged and
\* the two routes of the net meet on its moved pin.
C29_ChainMeetsOnDraggedPin ==
    /\ data = DataBoard
    /\ Placed
    /\ dragState.id = "U2"
    /\ positions["U2"].x # 380
    /\ LET rs == RoutesOfNet(routes, "N1")
       IN  /\ Len(rs) = 2
           /\ rs[1].path[Len(rs[1].path)] = rs[2].path[1]

\* The cell one unit step from c in each of the four directions.
NeighboursOf(c) == { Pt(c.x + dirs[k].x, c.y + dirs[k].y) : k \in 1..4 }

\* The access cell of a resolvable connection with a matched pin: one cell
\* outward from the snapped pin on the pin's side.
AccessOf(conn) ==
    LET loc == LocateConn(conn)
        q == PinPoint(loc).p
    IN  IF loc.side = "left" THEN Pt(q.x - 1, q.y)
        ELSE IF loc.side = "right" THEN Pt(q.x + 1, q.y)
        ELSE IF loc.side = "top" THEN Pt(q.x, q.y - 1)
        ELSE Pt(q.x, q.y + 1)

PxOf(c) == Pt(c.x * 20, c.y * 20)

====
